---- MODULE Spec2Model ----
(***************************************************************************)
(* Model of OperationsStack (operations-stack.ts): the synthesis run of    *)
(* the stack constructor, i.e. the IAM provider / policy / role            *)
(* compilation followed by the Identity Center permission-set and          *)
(* assignment compilation.                                                 *)
(*                                                                         *)
(* Strings that the code inspects with regular expressions (principal      *)
(* values of assumedBy items, the partition) are sequences of one-         *)
(* character strings.  Names that are only used as keys are TLA+ strings.  *)
(***************************************************************************)
EXTENDS Integers, Sequences, FiniteSets, TLC

VARIABLES cfg, pc, idx, providers, policies, roles, groups, users,
          permissionSetMap, assignments, lookupCalls, error

vars == <<cfg, pc, idx, providers, policies, roles, groups, users,
          permissionSetMap, assignments, lookupCalls, error>>

(***************************************************************************)
(* Bounds of the explored configurations.                                  *)
(***************************************************************************)
MaxAssumedBy == 2
MaxRoles == 2
MaxPermissionSets == 3
MaxAssignments == 2
MaxTargets == 2
MaxPrincipals == 3

(***************************************************************************)
(* Program constants.                                                      *)
(***************************************************************************)
AccountIdLen == 12

(***************************************************************************)
(* Character strings.                                                      *)
(***************************************************************************)
Digit == {"0", "1", "2", "3", "4", "5", "6", "7", "8", "9"}

Rep(n, c) == [k \in 1..n |-> c]

AWS == <<"a", "w", "s">>
AWSCN == <<"a", "w", "s", "-", "c", "n">>
Partitions == {AWS, AWSCN}

ArnHead == <<"a", "r", "n", ":">>
IamSep == <<":", "i", "a", "m", ":", ":">>
RootTail == <<":", "r", "o", "o", "t">>
UserTail == <<":", "u", "s", "e", "r">>

EC2 == <<"e", "c", "2">>
IDP == <<"i", "d", "p">>
NOIDP == <<"n", "o", "i", "d", "p">>
AUDIT == <<"A", "u", "d", "i", "t">>
GHOST == <<"G", "h", "o", "s", "t">>

Undefined == <<"undefined">>

(***************************************************************************)
(* accountsConfig.getAccountId: the account-name lookup collaborator.      *)
(* KnownAccounts is the account table of the run.                          *)
(***************************************************************************)
AuditId == <<"2", "2", "2", "2", "2", "2", "2", "2", "2", "2", "2", "2">>

KnownAccounts == {AUDIT}

getAccountId(name) ==
    IF name \in KnownAccounts
    THEN [ok |-> TRUE, id |-> AuditId]
    ELSE [ok |-> FALSE, id |-> Undefined]

(***************************************************************************)
(* The two regular expressions of getRolePrincipals.                       *)
(*   accountIdRegex  = /^\d{12}$/                                          *)
(*   accountArnRegex = ^arn:<partition>:iam::(\d{12}):root$                *)
(* Neither has the multiline flag, so ^ and $ match the ends of the input  *)
(* only.  The partitions modelled contain no regular-expression operator.  *)
(***************************************************************************)
accountIdRegexTestShort(s) ==
    /\ Len(s) = AccountIdLen - 1
    /\ \A k \in 1..Len(s) : s[k] \in Digit

accountIdRegexTest(s) ==
    /\ Len(s) = AccountIdLen
    /\ \A k \in 1..Len(s) : s[k] \in Digit

ArnPrefix(partition) == ArnHead \o partition \o IamSep

accountArnRegexTestUnanchored(partition, s) ==
    LET pre == ArnPrefix(partition)
    IN  /\ Len(s) >= Len(pre) + AccountIdLen + Len(RootTail)
        /\ SubSeq(s, 1, Len(pre)) = pre
        /\ accountIdRegexTest(SubSeq(s, Len(pre) + 1, Len(pre) + AccountIdLen))
        /\ SubSeq(s, Len(pre) + AccountIdLen + 1,
                  Len(pre) + AccountIdLen + Len(RootTail)) = RootTail

accountArnRegexTestAnyPartition(partition, s) ==
    \E p \in Partitions :
        LET pre == ArnPrefix(p)
        IN  /\ Len(s) = Len(pre) + AccountIdLen + Len(RootTail)
            /\ SubSeq(s, 1, Len(pre)) = pre
            /\ accountIdRegexTest(SubSeq(s, Len(pre) + 1, Len(pre) + AccountIdLen))
            /\ SubSeq(s, Len(pre) + AccountIdLen + 1, Len(s)) = RootTail

accountArnRegexTest(partition, s) ==
    LET pre == ArnPrefix(partition)
    IN  /\ Len(s) = Len(pre) + AccountIdLen + Len(RootTail)
        /\ SubSeq(s, 1, Len(pre)) = pre
        /\ accountIdRegexTest(SubSeq(s, Len(pre) + 1, Len(pre) + AccountIdLen))
        /\ SubSeq(s, Len(pre) + AccountIdLen + 1, Len(s)) = RootTail

accountArnRegexExecShifted(partition, s) ==
    SubSeq(s, Len(ArnPrefix(partition)), Len(ArnPrefix(partition)) + AccountIdLen - 1)

accountArnRegexExec(partition, s) ==
    SubSeq(s, Len(ArnPrefix(partition)) + 1, Len(ArnPrefix(partition)) + AccountIdLen)

(***************************************************************************)
(* getRolePrincipals, one assumedBy item.  The result carries the          *)
(* principal pushed, the values passed to getAccountId, and the error      *)
(* thrown ("none" when the item is resolved).                              *)
(***************************************************************************)
ServicePrincipal(name) ==
    [kind |-> "Service", identifier |-> name, samlAud |-> FALSE]

AccountPrincipal(id) ==
    [kind |-> "AccountId", identifier |-> id, samlAud |-> FALSE]

FederatedPrincipal(arn, aud) ==
    [kind |-> "Federated", identifier |-> arn, samlAud |-> aud]

NoPrincipal == [kind |-> "none", identifier |-> Undefined, samlAud |-> FALSE]

samlProviderArn(name) == <<"s", "a", "m", "l", "/">> \o name

Resolved(p) == [err |-> "none", principal |-> p, calls |-> <<>>]

resolveAccount(partition, value) ==
    IF accountIdRegexTest(value)
    THEN Resolved(AccountPrincipal(value))
    ELSE IF accountArnRegexTest(partition, value)
    THEN Resolved(AccountPrincipal(accountArnRegexExec(partition, value)))
    ELSE LET r == getAccountId(value)
         IN  IF r.ok
             THEN [err |-> "none", principal |-> AccountPrincipal(r.id),
                   calls |-> <<value>>]
             ELSE [err |-> "UnresolvableAccountReference",
                   principal |-> NoPrincipal, calls |-> <<value>>]

(* this.providers[name] is undefined for a name that was never added.  In  *)
(* aws-cn the code reads samlProviderArn of it, elsewhere it hands it to   *)
(* the SamlConsolePrincipal constructor, which reads the same property:    *)
(* both dereference undefined and throw a TypeError.                       *)
resolveProviderUnchecked(partition, provs, name) ==
    Resolved(FederatedPrincipal(IF name \in provs THEN samlProviderArn(name)
                                ELSE Undefined,
                                partition = AWSCN))

resolveProvider(partition, provs, name) ==
    IF partition = AWSCN
    THEN IF name \in provs
         THEN Resolved(FederatedPrincipal(samlProviderArn(name), TRUE))
         ELSE [err |-> "TypeError", principal |-> NoPrincipal, calls |-> <<>>]
    ELSE IF name \in provs
         THEN Resolved(FederatedPrincipal(samlProviderArn(name), FALSE))
         ELSE [err |-> "TypeError", principal |-> NoPrincipal, calls |-> <<>>]

resolveItem(partition, provs, item) ==
    CASE item.type = "service" -> Resolved(ServicePrincipal(item.principal))
      [] item.type = "account" -> resolveAccount(partition, item.principal)
      [] item.type = "provider" -> resolveProvider(partition, provs, item.principal)

(***************************************************************************)
(* getRolePrincipals: the loop over roleItem.assumedBy.  The loop stops at *)
(* the first item that throws; calls are tagged with the item's position.  *)
(***************************************************************************)
FirstError(results) ==
    IF \E k \in 1..Len(results) : results[k].err # "none"
    THEN CHOOSE k \in 1..Len(results) :
            /\ results[k].err # "none"
            /\ \A j \in 1..(k - 1) : results[j].err = "none"
    ELSE 0

RECURSIVE CallsUpTo(_, _, _)
CallsUpTo(results, roleName, n) ==
    IF n = 0 THEN <<>>
    ELSE CallsUpTo(results, roleName, n - 1) \o
         [k \in 1..Len(results[n].calls) |->
            [value |-> results[n].calls[k], by |-> "getRolePrincipals",
             role |-> roleName, item |-> n]]

getRolePrincipals(partition, provs, roleItem) ==
    LET results == [k \in 1..Len(roleItem.assumedBy) |->
                      resolveItem(partition, provs, roleItem.assumedBy[k])]
        bad == FirstError(results)
    IN  IF bad = 0
        THEN [err |-> "none",
              principals |-> [k \in 1..Len(results) |-> results[k].principal],
              calls |-> CallsUpTo(results, roleItem.name, Len(results))]
        ELSE [err |-> results[bad].err,
              principals |-> <<>>,
              calls |-> CallsUpTo(results, roleItem.name, bad)]

(***************************************************************************)
(* getManagedPolicies: AWS managed names first, then the customer managed  *)
(* names looked up in this.policies.  A name that is not a key of the      *)
(* registry yields undefined, which is pushed like any other element.      *)
(***************************************************************************)
AwsManagedPolicy(name) == [source |-> "aws", name |-> name]

UndefinedPolicy == [source |-> "undefined", name |-> ""]

policyLookup(pols, name) ==
    IF name \in pols THEN [source |-> "customer", name |-> name]
    ELSE UndefinedPolicy

getManagedPolicies(pols, roleItem) ==
    [k \in 1..Len(roleItem.awsManaged) |-> AwsManagedPolicy(roleItem.awsManaged[k])]
    \o [k \in 1..Len(roleItem.customerManaged) |->
          policyLookup(pols, roleItem.customerManaged[k])]

(***************************************************************************)
(* createRole.  err is "none" when the role is constructed.                *)
(***************************************************************************)
HasProvider(roleItem) ==
    \E k \in 1..Len(roleItem.assumedBy) : roleItem.assumedBy[k].type = "provider"

ValidationMessage == "Configuration validation failed at runtime."

ErrorMessage(kind) ==
    CASE kind = "AmbiguousProviderPrincipal" -> ValidationMessage
      [] kind = "TypeError" -> "Cannot read properties of undefined"
      [] kind = "UnresolvableAccountReference" -> "account not found"
      [] OTHER -> ""

(* entry is the name of the configuration entry that the message of the    *)
(* error interpolates.  Every message thrown here is a literal, and the    *)
(* TypeError names the property read, so no error carries an entry name.   *)
ErrorEntry(kind) == ""

NoError == [kind |-> "none", message |-> "", at |-> "", entry |-> ""]

Thrown(kind, at) ==
    [kind |-> kind, message |-> ErrorMessage(kind), at |-> at,
     entry |-> ErrorEntry(kind)]

NoRole == [name |-> "", composite |-> FALSE, principals |-> <<>>,
           managedPolicies |-> <<>>, path |-> "",
           permissionsBoundary |-> UndefinedPolicy]

providerAloneCheckOff(principals) == FALSE

providerAloneCheck(principals) == Len(principals) > 1

(* assumedBy: the provider principal alone, or a CompositePrincipal of all *)
(* resolved principals in order.                                           *)
assumedByAlwaysComposite(roleItem, principals) ==
    [composite |-> TRUE, principals |-> principals]

assumedByPrincipal(roleItem, principals) ==
    IF HasProvider(roleItem)
    THEN [composite |-> FALSE, principals |-> <<principals[1]>>]
    ELSE [composite |-> TRUE, principals |-> principals]

createRole(partition, provs, pols, roleItem, roleSetPath) ==
    LET p == getRolePrincipals(partition, provs, roleItem)
        managedPolicies == getManagedPolicies(pols, roleItem)
    IN  IF p.err # "none"
        THEN [err |-> p.err, calls |-> p.calls, role |-> NoRole]
        ELSE IF HasProvider(roleItem) /\ providerAloneCheck(p.principals)
        THEN [err |-> "AmbiguousProviderPrincipal", calls |-> p.calls,
              role |-> NoRole]
        ELSE [err |-> "none", calls |-> p.calls,
              role |-> [name |-> roleItem.name,
                        composite |->
                            assumedByPrincipal(roleItem, p.principals).composite,
                        principals |->
                            assumedByPrincipal(roleItem, p.principals).principals,
                        managedPolicies |-> managedPolicies,
                        path |-> roleSetPath,
                        permissionsBoundary |->
                            policyLookup(pols, roleItem.boundaryPolicy)]]

(***************************************************************************)
(* addManagedPolicies: the names registered in this.policies.              *)
(***************************************************************************)
SeqRange(s) == {s[k] : k \in 1..Len(s)}

registeredPoliciesOfExcluded(policySets) ==
    UNION {SeqRange(policySets[k].policies) :
             k \in {j \in 1..Len(policySets) :
                      /\ ~policySets[j].included
                      /\ ~policySets[j].identityCenterDependency}}

registeredPolicies(policySets) ==
    UNION {SeqRange(policySets[k].policies) :
             k \in {j \in 1..Len(policySets) :
                      /\ policySets[j].included
                      /\ ~policySets[j].identityCenterDependency}}

(***************************************************************************)
(* addRoles: the roles visited by the two nested loops, in order, each     *)
(* with the path of its role set.  Excluded role sets are skipped.         *)
(***************************************************************************)
RECURSIVE rolesToAdd(_, _)
rolesToAdd(roleSets, n) ==
    IF n = 0 THEN <<>>
    ELSE rolesToAdd(roleSets, n - 1) \o
         (IF roleSets[n].included
          THEN [k \in 1..Len(roleSets[n].roles) |->
                  [roleItem |-> roleSets[n].roles[k], path |-> roleSets[n].path]]
          ELSE <<>>)

RoleQueue(c) == rolesToAdd(c.roleSets, Len(c.roleSets))

(***************************************************************************)
(* addGroups and addUsers: the entries visited by the nested loops, and    *)
(* the group and the user constructed for one entry.  A user refers to its *)
(* group and to its boundary policy by lookups that yield undefined for a  *)
(* missing key.                                                            *)
(***************************************************************************)
RECURSIVE groupsToAdd(_, _)
groupsToAdd(groupSets, n) ==
    IF n = 0 THEN <<>>
    ELSE groupsToAdd(groupSets, n - 1) \o
         (IF groupSets[n].included THEN groupSets[n].groups ELSE <<>>)

GroupQueue(c) == groupsToAdd(c.groupSets, Len(c.groupSets))

RECURSIVE usersToAdd(_, _)
usersToAdd(userSets, n) ==
    IF n = 0 THEN <<>>
    ELSE usersToAdd(userSets, n - 1) \o
         (IF userSets[n].included THEN userSets[n].users ELSE <<>>)

UserQueue(c) == usersToAdd(c.userSets, Len(c.userSets))

createGroup(pols, groupItem) ==
    [name |-> groupItem.name,
     managedPolicies |-> getManagedPolicies(pols, groupItem)]

groupLookup(grps, name) ==
    IF \E k \in 1..Len(grps) : grps[k].name = name THEN name ELSE "undefined"

createUser(pols, grps, user) ==
    [userName |-> user.username,
     groups |-> <<groupLookup(grps, user.group)>>,
     permissionsBoundary |-> policyLookup(pols, user.boundaryPolicy)]

(***************************************************************************)
(* Identity Center permission sets.                                        *)
(*                                                                         *)
(* A CfnPermissionSet object is identified by its position in the order of *)
(* construction; addDependency records the identifiers of the objects it   *)
(* is given, in call order.  The empty string stands for an absent         *)
(* (falsy) configuration value.                                            *)
(***************************************************************************)
getCustomerManagedPolicyReferencesList(ps) ==
    ps.customerManaged \o ps.acceleratorManaged

awsManagedPolicyArn(name) == "arn:aws:iam::aws:policy/" \o name

NoBoundary == [customerManagedPolicyReference |-> "", managedPolicyArn |-> ""]

getPermissionBoundaryFirstWins(ps) ==
    IF ~ps.permissionsBoundary.present THEN NoBoundary
    ELSE IF ps.permissionsBoundary.customerManagedPolicy # ""
    THEN [customerManagedPolicyReference |->
              ps.permissionsBoundary.customerManagedPolicy,
          managedPolicyArn |-> ""]
    ELSE IF ps.permissionsBoundary.awsManagedPolicyName # ""
    THEN [customerManagedPolicyReference |-> "",
          managedPolicyArn |->
              awsManagedPolicyArn(ps.permissionsBoundary.awsManagedPolicyName)]
    ELSE NoBoundary

getPermissionBoundary(ps) ==
    IF ~ps.permissionsBoundary.present THEN NoBoundary
    ELSE LET first ==
                 IF ps.permissionsBoundary.customerManagedPolicy # ""
                 THEN [customerManagedPolicyReference |->
                           ps.permissionsBoundary.customerManagedPolicy,
                       managedPolicyArn |-> ""]
                 ELSE NoBoundary
         IN  IF ps.permissionsBoundary.awsManagedPolicyName # ""
             THEN [customerManagedPolicyReference |-> "",
                   managedPolicyArn |->
                       awsManagedPolicyArn(ps.permissionsBoundary.awsManagedPolicyName)]
             ELSE first

attrPermissionSetArn(id) == "arn:permissionSet/" \o ToString(id)

permissionSetDependenciesLastOnly(permissionSetMapArg) ==
    IF Len(permissionSetMapArg) = 0 THEN <<>>
    ELSE <<permissionSetMapArg[Len(permissionSetMapArg)].id>>

permissionSetDependenciesWithSelf(permissionSetMapArg) ==
    [k \in 1..(Len(permissionSetMapArg) + 1) |->
        IF k <= Len(permissionSetMapArg) THEN permissionSetMapArg[k].id ELSE k]

permissionSetDependencies(permissionSetMapArg) ==
    [k \in 1..Len(permissionSetMapArg) |-> permissionSetMapArg[k].id]

createPermissionsSet(ps, permissionSetMapArg) ==
    LET id == Len(permissionSetMapArg) + 1
    IN  [name |-> ps.name,
         arn |-> attrPermissionSetArn(id),
         id |-> id,
         customerManagedPolicyReferences |->
             getCustomerManagedPolicyReferencesList(ps),
         permissionsBoundary |-> getPermissionBoundary(ps),
         dependsOn |-> permissionSetDependencies(permissionSetMapArg)]

(***************************************************************************)
(* getPermissionSetArn: the last entry of the given name with a truthy arn.*)
(***************************************************************************)
RECURSIVE getPermissionSetArnLoop(_, _, _, _)
getPermissionSetArnLoop(permissionSetMapArg, name, k, acc) ==
    IF k > Len(permissionSetMapArg) THEN acc
    ELSE getPermissionSetArnLoop(permissionSetMapArg, name, k + 1,
            IF /\ permissionSetMapArg[k].name = name
               /\ permissionSetMapArg[k].arn # ""
            THEN permissionSetMapArg[k].arn
            ELSE acc)

getPermissionSetArnAnyName(permissionSetMapArg, name) ==
    IF Len(permissionSetMapArg) = 0 THEN ""
    ELSE permissionSetMapArg[Len(permissionSetMapArg)].arn

getPermissionSetArnIgnoringArn(permissionSetMapArg, name) ==
    LET named == {k \in 1..Len(permissionSetMapArg) :
                     permissionSetMapArg[k].name = name}
    IN  IF named = {} THEN ""
        ELSE permissionSetMapArg[CHOOSE k \in named : \A m \in named : m <= k].arn

getPermissionSetArn(permissionSetMapArg, name) ==
    getPermissionSetArnLoop(permissionSetMapArg, name, 1, "")

(***************************************************************************)
(* getAssignmentPrincipals: empty without configured principals, else the  *)
(* principalsMetadata of the UsersGroupsMetadata collaborator, one         *)
(* {type, name, id} per configured principal, in configuration order.      *)
(***************************************************************************)
principalsMetadata(principals) ==
    [k \in 1..Len(principals) |->
        [type |-> principals[k].type, name |-> principals[k].name,
         id |-> "id/" \o principals[k].type \o "/" \o principals[k].name]]

getAssignmentPrincipals(assignment) ==
    IF Len(assignment.principals) = 0 THEN <<>>
    ELSE principalsMetadata(assignment.principals)

(***************************************************************************)
(* createAssignment.  A CfnAssignment object is identified by its position *)
(* in the order of construction within the run.  cfnAssignments is the     *)
(* list local to one iteration of the target-account loop; it is           *)
(* represented by the identifier after which its members start.            *)
(***************************************************************************)
HasLegacyPrincipal(assignment) ==
    assignment.principalId # "" /\ assignment.principalType # ""

cfnAssignmentsStartPerCall(callStart, targetStart) == callStart

cfnAssignmentsStart(callStart, targetStart) == targetStart

assignmentDependenciesChain(listStart, id) ==
    IF id - 1 > listStart THEN <<id - 1>> ELSE <<>>

assignmentDependenciesFromStart(listStart, id) ==
    [m \in 1..(id - listStart) |-> listStart + m - 1]

assignmentDependencies(listStart, id) ==
    [m \in 1..(id - 1 - listStart) |-> listStart + m]

assignmentsForTarget(assignment, arn, targetAccountId, callStart, n) ==
    LET legacy == IF HasLegacyPrincipal(assignment)
                  THEN <<[id |-> n + 1,
                          name |-> assignment.name,
                          permissionSetArn |-> arn,
                          principalId |-> assignment.principalId,
                          principalType |-> assignment.principalType,
                          targetId |-> targetAccountId,
                          legacy |-> TRUE,
                          dependsOn |-> <<>>]>>
                  ELSE <<>>
        targetStart == n + Len(legacy)
        listStart == cfnAssignmentsStart(callStart, targetStart)
        assignmentPrincipals == getAssignmentPrincipals(assignment)
    IN  legacy \o
        [j \in 1..Len(assignmentPrincipals) |->
            [id |-> targetStart + j,
             name |-> assignment.name,
             permissionSetArn |-> arn,
             principalId |-> assignmentPrincipals[j].id,
             principalType |-> assignmentPrincipals[j].type,
             targetId |-> targetAccountId,
             legacy |-> FALSE,
             dependsOn |-> assignmentDependencies(listStart, targetStart + j)]]

RECURSIVE createAssignmentLoop(_, _, _, _, _)
createAssignmentLoop(assignment, arn, callStart, t, acc) ==
    IF t > Len(assignment.targetAccountIds) THEN acc
    ELSE createAssignmentLoop(assignment, arn, callStart, t + 1,
            acc \o assignmentsForTarget(assignment, arn,
                                        assignment.targetAccountIds[t],
                                        callStart, callStart + Len(acc)))

createAssignment(assignment, permissionSetMapArg, emitted) ==
    createAssignmentLoop(assignment,
                         getPermissionSetArn(permissionSetMapArg,
                                             assignment.permissionSetName),
                         Len(emitted), 1, <<>>)

(***************************************************************************)
(* Configurations.                                                         *)
(***************************************************************************)
D12a == Rep(AccountIdLen, "1")
D12b == <<"1", "2", "3", "4", "5", "6", "7", "8", "9", "0", "1", "2">>
D11 == Rep(AccountIdLen - 1, "1")
D13 == Rep(AccountIdLen + 1, "1")
X1 == [D12a EXCEPT ![1] = "x"]
X12 == [D12a EXCEPT ![AccountIdLen] = "x"]

Arn(partition, body, tail) == ArnHead \o partition \o IamSep \o body \o tail

AccountValues ==
    {D12a, D12b, D11, D13, X1, X12, AUDIT, GHOST}
    \cup {Arn(p, b, RootTail) : p \in Partitions, b \in {D12b, D11, X12}}
    \cup {Arn(AWS, D12b, UserTail),
          <<"x">> \o Arn(AWS, D12b, RootTail),
          Arn(AWS, D12b, RootTail) \o <<"\n">>}

Ref(type, principal) == [type |-> type, principal |-> principal]

(* The references combined in lists of several assumedBy items. *)
ListedAccountValues ==
    {D12b, D11, X12, AUDIT, GHOST,
     Arn(AWS, D12b, RootTail), Arn(AWSCN, D12b, RootTail),
     Arn(AWS, X12, RootTail), Arn(AWS, D12b, RootTail) \o <<"\n">>}

Refs ==
    {Ref("service", EC2), Ref("provider", IDP), Ref("provider", NOIDP)}
    \cup {Ref("account", v) : v \in ListedAccountValues}

SeqsUpTo(S, lo, hi) == UNION {[1..n -> S] : n \in lo..hi}

Role(name, assumedBy, customerManaged, boundaryPolicy) ==
    [name |-> name, assumedBy |-> assumedBy, awsManaged |-> <<"ReadOnlyAccess">>,
     customerManaged |-> customerManaged, boundaryPolicy |-> boundaryPolicy]

RoleSet(included, rs) == [included |-> included, path |-> "/", roles |-> rs]

PolicySet(included, icDep, names) ==
    [included |-> included, identityCenterDependency |-> icDep, policies |-> names]

Boundary(present, customer, aws) ==
    [present |-> present, customerManagedPolicy |-> customer,
     awsManagedPolicyName |-> aws]

Boundaries ==
    {Boundary(FALSE, "", ""), Boundary(TRUE, "", ""), Boundary(TRUE, "P1", ""),
     Boundary(TRUE, "", "PowerUserAccess"),
     Boundary(TRUE, "P1", "PowerUserAccess")}

PermissionSet(name, boundary) ==
    [name |-> name, customerManaged |-> <<"P1">>, acceleratorManaged |-> <<>>,
     permissionsBoundary |-> boundary]

PrincipalPool(k) ==
    [type |-> IF k % 2 = 1 THEN "USER" ELSE "GROUP", name |-> "p" \o ToString(k)]

TargetPool(k) == "target" \o ToString(k)

Assignment(name, permissionSetName, legacy, nTargets, nPrincipals) ==
    [name |-> name, permissionSetName |-> permissionSetName,
     principalId |-> IF legacy THEN "legacy-id" ELSE "",
     principalType |-> IF legacy THEN "USER" ELSE "",
     targetAccountIds |-> [k \in 1..nTargets |-> TargetPool(k)],
     principals |-> [k \in 1..nPrincipals |-> PrincipalPool(k)]]

NoIdentityCenter ==
    [present |-> FALSE, delegatedAdminAccount |-> <<>>,
     permissionSets |-> <<>>, assignments |-> <<>>]

IdentityCenter(delegated, permissionSets, asgs) ==
    [present |-> TRUE, delegatedAdminAccount |-> delegated,
     permissionSets |-> permissionSets, assignments |-> asgs]

Config(partition, homeRegion, account, policySets, roleSets, identityCenter) ==
    [partition |-> partition, homeRegion |-> homeRegion, account |-> account,
     securityAdminAccount |-> AUDIT, providers |-> <<IDP>>,
     policySets |-> policySets, roleSets |-> roleSets,
     groupSets |-> <<>>, userSets |-> <<>>,
     identityCenter |-> identityCenter]

Group(name, customerManaged) ==
    [name |-> name, awsManaged |-> <<>>, customerManaged |-> customerManaged]

User(username, group, boundaryPolicy) ==
    [username |-> username, group |-> group, boundaryPolicy |-> boundaryPolicy]

WithGroupsAndUsers(c, groupsIncluded, usersIncluded) ==
    [c EXCEPT
       !.groupSets = <<[included |-> groupsIncluded,
                        groups |-> <<Group("G1", <<"P1">>)>>]>>,
       !.userSets = <<[included |-> usersIncluded,
                       users |-> <<User("U1", "G1", "P1"),
                                   User("U2", "G2", "P9")>>]>>]

(* One role with every combination of principal references, and one role *)
(* with each account value alone.                                         *)
PrincipalConfigs ==
    {Config(p, TRUE, AuditId, <<>>,
            <<RoleSet(TRUE, <<Role("R1", a, <<>>, "")>>)>>, NoIdentityCenter) :
        p \in Partitions,
        a \in SeqsUpTo(Refs, 1, MaxAssumedBy)
              \cup {<<Ref("account", v)>> : v \in AccountValues}}

(* Several roles, with policy references that are or are not registered. *)
SmallAssumedBy ==
    {<<Ref("service", EC2)>>, <<Ref("provider", IDP)>>,
     <<Ref("provider", IDP), Ref("service", EC2)>>, <<Ref("account", GHOST)>>}

RoleItems(k) ==
    {Role("R" \o ToString(k), a, c, b) :
        a \in SmallAssumedBy, c \in {<<>>, <<"P1">>, <<"P9">>}, b \in {""}}

RoleLists ==
    UNION {{r \in [1..n -> UNION {RoleItems(k) : k \in 1..n}] :
              \A k \in 1..n : r[k] \in RoleItems(k)} : n \in 1..MaxRoles}

SimpleIdentityCenter ==
    IdentityCenter(<<>>, <<PermissionSet("A", Boundary(FALSE, "", ""))>>,
                   <<Assignment("asg1", "A", FALSE, 1, 1)>>)

PolicyConfigs ==
    {Config(AWS, TRUE, AuditId, <<PolicySet(inc, FALSE, <<"P1">>)>>,
            <<RoleSet(TRUE, r)>>, SimpleIdentityCenter) :
        inc \in BOOLEAN, r \in RoleLists}

(* Permission sets with every boundary form, and permission sets in every *)
(* order of names.                                                         *)
PermissionSetName(k) == <<"A", "B", "C", "D", "E">>[k]

PermissionSetLists ==
    UNION {{[k \in 1..n |-> PermissionSet(PermissionSetName(k), b[k])] :
              b \in [1..n -> Boundaries]} : n \in 1..MaxPermissionSets}
    \cup {[k \in 1..Len(names) |-> PermissionSet(names[k], Boundary(FALSE, "", ""))] :
              names \in SeqsUpTo({"A", "B", "C"}, 1, MaxPermissionSets)}

PermissionSetConfigs ==
    {Config(AWS, TRUE, AuditId, <<>>, <<>>, IdentityCenter(<<>>, ps, <<>>)) :
        ps \in PermissionSetLists}

(* Assignments over several target accounts and principals. *)
TwoPermissionSets ==
    <<PermissionSet("A", Boundary(FALSE, "", "")),
      PermissionSet("B", Boundary(FALSE, "", ""))>>

AssignmentItems(k) ==
    {Assignment("asg" \o ToString(k), "A", FALSE, t, p) :
        t \in 1..MaxTargets, p \in 0..MaxPrincipals}

AssignmentLists ==
    UNION {{a \in [1..n -> UNION {AssignmentItems(k) : k \in 1..n}] :
              \A k \in 1..n : a[k] \in AssignmentItems(k)} : n \in 1..MaxAssignments}

AssignmentConfigs ==
    {Config(AWS, TRUE, AuditId, <<>>, <<>>,
            IdentityCenter(AUDIT, TwoPermissionSets, a)) : a \in AssignmentLists}

LegacyAssignmentItems ==
    {Assignment("asg1", ps, l, t, p) :
        ps \in {"A", "B", "Z"}, l \in BOOLEAN,
        t \in 0..MaxTargets, p \in 0..MaxPrincipals}

LegacyConfigs ==
    {Config(AWS, TRUE, AuditId, <<>>, <<>>, IdentityCenter(<<>>, ps, <<a>>)) :
        ps \in {TwoPermissionSets,
                <<PermissionSet("A", Boundary(FALSE, "", "")),
                  PermissionSet("A", Boundary(FALSE, "", ""))>>},
        a \in LegacyAssignmentItems}

(* Stacks outside the home region or outside the delegated admin account,  *)
(* and role sets or policy sets that are excluded.                         *)
OtherId == Rep(AccountIdLen, "3")

ScopeConfigs ==
    {WithGroupsAndUsers(
        Config(AWS, h, acct,
               <<PolicySet(TRUE, dep, <<"P1">>)>>,
               <<RoleSet(inc, <<Role("R1", <<Ref("service", EC2)>>, <<"P1">>, "")>>),
                 RoleSet(TRUE, <<Role("R2", <<Ref("account", D12a)>>, <<>>, "P1")>>)>>,
               SimpleIdentityCenter),
        inc, inc2) :
        h \in BOOLEAN, acct \in {AuditId, OtherId}, dep \in BOOLEAN,
        inc \in BOOLEAN, inc2 \in BOOLEAN}

(* A role trusted by several principals next to a role trusted by a       *)
(* provider, in each partition.                                            *)
CompositeConfigs ==
    {Config(p, TRUE, AuditId, <<>>,
            <<RoleSet(TRUE,
                      <<Role("R1", <<Ref("account", D12a), Ref("service", EC2)>>,
                             <<>>, ""),
                        Role("R2", <<Ref("provider", IDP)>>, <<>>, "")>>)>>,
            NoIdentityCenter) :
        p \in Partitions}

Configs ==
    PrincipalConfigs \cup PolicyConfigs \cup PermissionSetConfigs
    \cup AssignmentConfigs \cup LegacyConfigs \cup ScopeConfigs
    \cup CompositeConfigs

(***************************************************************************)
(* The run of the constructor.  pc is the statement the constructor is at; *)
(* idx is the position of the next entry inside the loop pc names.         *)
(* "done" is the completed synthesis, "failed" a constructor that threw.   *)
(***************************************************************************)
Init ==
    /\ cfg \in Configs
    /\ pc = "constructor"
    /\ idx = 1
    /\ providers = {}
    /\ policies = {}
    /\ roles = <<>>
    /\ groups = <<>>
    /\ users = <<>>
    /\ permissionSetMap = <<>>
    /\ assignments = <<>>
    /\ lookupCalls = <<>>
    /\ error = NoError

LookupCall(value, by) == [value |-> value, by |-> by, role |-> "", item |-> 0]

(* Lines 83-105: the security admin account is resolved, then the home     *)
(* region test decides whether any IAM resource is compiled.               *)
Constructor ==
    /\ pc = "constructor"
    /\ lookupCalls' = Append(lookupCalls,
                             LookupCall(cfg.securityAdminAccount, "constructor"))
    /\ IF ~getAccountId(cfg.securityAdminAccount).ok
       THEN pc' = "failed" /\ error' = Thrown("UnresolvableAccountReference", pc)
       ELSE /\ pc' = IF cfg.homeRegion THEN "addProviders" ELSE "done"
            /\ error' = error
    /\ UNCHANGED <<cfg, groups, users, idx, providers, policies, roles, permissionSetMap,
                   assignments>>

AddProviders ==
    /\ pc = "addProviders"
    /\ providers' = SeqRange(cfg.providers)
    /\ pc' = "addManagedPolicies"
    /\ UNCHANGED <<cfg, groups, users, idx, policies, roles, permissionSetMap, assignments,
                   lookupCalls, error>>

AddManagedPolicies ==
    /\ pc = "addManagedPolicies"
    /\ policies' = registeredPolicies(cfg.policySets)
    /\ pc' = "addRoles"
    /\ idx' = 1
    /\ UNCHANGED <<cfg, groups, users, providers, roles, permissionSetMap, assignments,
                   lookupCalls, error>>

(* One iteration of the loops of addRoles. *)
AddRoles ==
    /\ pc = "addRoles"
    /\ idx <= Len(RoleQueue(cfg))
    /\ LET entry == RoleQueue(cfg)[idx]
           r == createRole(cfg.partition, providers, policies,
                           entry.roleItem, entry.path)
       IN  /\ lookupCalls' = lookupCalls \o r.calls
           /\ IF r.err # "none"
              THEN /\ pc' = "failed"
                   /\ error' = Thrown(r.err, pc)
                   /\ UNCHANGED <<idx, roles>>
              ELSE /\ roles' = Append(roles, r.role)
                   /\ idx' = idx + 1
                   /\ UNCHANGED <<pc, error>>
    /\ UNCHANGED <<cfg, groups, users, providers, policies, permissionSetMap, assignments>>

AddRolesReturn ==
    /\ pc = "addRoles"
    /\ idx > Len(RoleQueue(cfg))
    /\ pc' = "addGroups"
    /\ idx' = 1
    /\ UNCHANGED <<cfg, groups, users, providers, policies, roles,
                   permissionSetMap, assignments, lookupCalls, error>>

(* One iteration of the loops of addGroups. *)
AddGroups ==
    /\ pc = "addGroups"
    /\ idx <= Len(GroupQueue(cfg))
    /\ groups' = Append(groups, createGroup(policies, GroupQueue(cfg)[idx]))
    /\ idx' = idx + 1
    /\ UNCHANGED <<cfg, pc, users, providers, policies, roles,
                   permissionSetMap, assignments, lookupCalls, error>>

AddGroupsReturn ==
    /\ pc = "addGroups"
    /\ idx > Len(GroupQueue(cfg))
    /\ pc' = "addUsers"
    /\ idx' = 1
    /\ UNCHANGED <<cfg, groups, users, providers, policies, roles,
                   permissionSetMap, assignments, lookupCalls, error>>

(* One iteration of the loops of addUsers. *)
AddUsers ==
    /\ pc = "addUsers"
    /\ idx <= Len(UserQueue(cfg))
    /\ users' = Append(users, createUser(policies, groups, UserQueue(cfg)[idx]))
    /\ idx' = idx + 1
    /\ UNCHANGED <<cfg, pc, groups, providers, policies, roles,
                   permissionSetMap, assignments, lookupCalls, error>>

AddUsersReturn ==
    /\ pc = "addUsers"
    /\ idx > Len(UserQueue(cfg))
    /\ pc' = "addIdentityCenterResources"
    /\ UNCHANGED <<cfg, idx, groups, users, providers, policies, roles,
                   permissionSetMap, assignments, lookupCalls, error>>

(* Lines 992-1003: the Identity Center is compiled in the delegated admin  *)
(* account only.                                                           *)
(* In the delegated admin account the permission sets are added first and  *)
(* the list they return is handed to addIdentityCenterAssignments.         *)
identityCenterFirstStepAssignments == "addIdentityCenterAssignments"

identityCenterFirstStep == "addIdentityCenterPermissionSets"

AddIdentityCenterResources ==
    /\ pc = "addIdentityCenterResources"
    /\ IF ~cfg.identityCenter.present
       THEN pc' = "done" /\ UNCHANGED <<idx, lookupCalls, error>>
       ELSE LET named == cfg.identityCenter.delegatedAdminAccount # <<>>
                r == IF named
                     THEN getAccountId(cfg.identityCenter.delegatedAdminAccount)
                     ELSE getAccountId(cfg.securityAdminAccount)
            IN  /\ lookupCalls' =
                       IF named
                       THEN Append(lookupCalls,
                                   LookupCall(cfg.identityCenter.delegatedAdminAccount,
                                              "addIdentityCenterResources"))
                       ELSE lookupCalls
                /\ IF ~r.ok
                   THEN /\ pc' = "failed"
                        /\ error' = Thrown("UnresolvableAccountReference", pc)
                        /\ idx' = idx
                   ELSE /\ pc' = IF cfg.account = r.id
                                 THEN identityCenterFirstStep
                                 ELSE "done"
                        /\ idx' = 1
                        /\ error' = error
    /\ UNCHANGED <<cfg, groups, users, providers, policies, roles, permissionSetMap,
                   assignments>>

(* One iteration of the loop of addIdentityCenterPermissionSets. *)
AddIdentityCenterPermissionSets ==
    /\ pc = "addIdentityCenterPermissionSets"
    /\ idx <= Len(cfg.identityCenter.permissionSets)
    /\ permissionSetMap' =
           Append(permissionSetMap,
                  createPermissionsSet(cfg.identityCenter.permissionSets[idx],
                                       permissionSetMap))
    /\ idx' = idx + 1
    /\ UNCHANGED <<cfg, groups, users, pc, providers, policies, roles, assignments,
                   lookupCalls, error>>

AddIdentityCenterPermissionSetsReturn ==
    /\ pc = "addIdentityCenterPermissionSets"
    /\ idx > Len(cfg.identityCenter.permissionSets)
    /\ pc' = "addIdentityCenterAssignments"
    /\ idx' = 1
    /\ UNCHANGED <<cfg, groups, users, providers, policies, roles, permissionSetMap,
                   assignments, lookupCalls, error>>

(* One iteration of the loop of addIdentityCenterAssignments. *)
AddIdentityCenterAssignments ==
    /\ pc = "addIdentityCenterAssignments"
    /\ idx <= Len(cfg.identityCenter.assignments)
    /\ assignments' =
           assignments \o createAssignment(cfg.identityCenter.assignments[idx],
                                           permissionSetMap, assignments)
    /\ idx' = idx + 1
    /\ UNCHANGED <<cfg, groups, users, pc, providers, policies, roles, permissionSetMap,
                   lookupCalls, error>>

AddIdentityCenterAssignmentsReturn ==
    /\ pc = "addIdentityCenterAssignments"
    /\ idx > Len(cfg.identityCenter.assignments)
    /\ pc' = "done"
    /\ UNCHANGED <<cfg, groups, users, idx, providers, policies, roles, permissionSetMap,
                   assignments, lookupCalls, error>>

Next ==
    \/ Constructor
    \/ AddProviders
    \/ AddManagedPolicies
    \/ AddRoles
    \/ AddRolesReturn
    \/ AddGroups
    \/ AddGroupsReturn
    \/ AddUsers
    \/ AddUsersReturn
    \/ AddIdentityCenterResources
    \/ AddIdentityCenterPermissionSets
    \/ AddIdentityCenterPermissionSetsReturn
    \/ AddIdentityCenterAssignments
    \/ AddIdentityCenterAssignmentsReturn

Spec == Init /\ [][Next]_vars

(***************************************************************************)
(* getPermissionSetArn on its whole input domain.  The function takes any  *)
(* PermissionSetMapping list, and the arn of a mapping is a string that    *)
(* the function tests for truthiness; the lists here hold up to            *)
(* MaxPermissionSets mappings with repeated names and with empty arns, and *)
(* one assignment entry is compiled against each of them by the steps of   *)
(* addIdentityCenterAssignments.                                           *)
(***************************************************************************)
RECURSIVE permissionSetListOf(_, _, _)
permissionSetListOf(names, hasArn, n) ==
    IF n = 0 THEN <<>>
    ELSE LET earlier == permissionSetListOf(names, hasArn, n - 1)
             entry == createPermissionsSet(
                          PermissionSet(names[n], Boundary(FALSE, "", "")), earlier)
         IN  Append(earlier, IF hasArn[n] THEN entry ELSE [entry EXCEPT !.arn = ""])

GetPermissionSetArnInit ==
    /\ \E n \in 1..MaxPermissionSets :
          \E names \in [1..n -> {"A", "B"}] :
              \E hasArn \in [1..n -> BOOLEAN] :
                  \E ref \in {"A", "Z"} :
                      /\ cfg = Config(AWS, TRUE, AuditId, <<>>, <<>>,
                                 IdentityCenter(<<>>,
                                     [k \in 1..n |->
                                         PermissionSet(names[k],
                                                       Boundary(FALSE, "", ""))],
                                     <<Assignment("asg1", ref, FALSE, 1, 1)>>))
                      /\ permissionSetMap = permissionSetListOf(names, hasArn, n)
    /\ pc = "addIdentityCenterAssignments"
    /\ idx = 1
    /\ providers = SeqRange(cfg.providers)
    /\ policies = {}
    /\ roles = <<>>
    /\ groups = <<>>
    /\ users = <<>>
    /\ assignments = <<>>
    /\ lookupCalls = <<>>
    /\ error = NoError

GetPermissionSetArnNext ==
    \/ AddIdentityCenterAssignments
    \/ AddIdentityCenterAssignmentsReturn

GetPermissionSetArnSpec ==
    GetPermissionSetArnInit /\ [][GetPermissionSetArnNext]_vars

(***************************************************************************)
(* Properties.                                                             *)
(***************************************************************************)
ConfiguredPermissionSets == cfg.identityCenter.permissionSets

ConfiguredAssignments == cfg.identityCenter.assignments

(* The assignment entries createAssignment has been called for. *)
AssignmentsVisited ==
    IF pc = "addIdentityCenterAssignments" THEN idx - 1 ELSE 0

Expanded == {k \in 1..Len(assignments) : ~assignments[k].legacy}

(* The expanded assignments emitted before k for the same assignment name  *)
(* and target account.                                                     *)
GroupBefore(k) ==
    {m \in Expanded :
        /\ m < k
        /\ assignments[m].name = assignments[k].name
        /\ assignments[m].targetId = assignments[k].targetId}

Ascending(s) == \A a, b \in 1..Len(s) : a < b => s[a] < s[b]

Max(S) == CHOOSE x \in S : \A y \in S : y <= x

(* C1: compiling N permission-set entries emits N definitions in           *)
(* configuration order, and the k-th definition depends on exactly the     *)
(* k-1 definitions emitted before it, in order, and on nothing else.       *)
C1_PermissionSetTotalOrder ==
    /\ Len(permissionSetMap) <= Len(ConfiguredPermissionSets)
    /\ pc = "addIdentityCenterAssignments" =>
           Len(permissionSetMap) = Len(ConfiguredPermissionSets)
    /\ \A k \in 1..Len(permissionSetMap) :
           /\ permissionSetMap[k].name = ConfiguredPermissionSets[k].name
           /\ \A m \in 1..(k - 1) : permissionSetMap[m].id # permissionSetMap[k].id
           /\ permissionSetMap[k].dependsOn =
                  [m \in 1..(k - 1) |-> permissionSetMap[m].id]

C1_Witness ==
    /\ pc = "addIdentityCenterAssignments"
    /\ Len(permissionSetMap) = 3
    /\ permissionSetMap[1].name = "A" /\ permissionSetMap[1].dependsOn = <<>>
    /\ permissionSetMap[2].name = "B"
    /\ permissionSetMap[2].dependsOn = <<permissionSetMap[1].id>>
    /\ permissionSetMap[3].name = "C"
    /\ permissionSetMap[3].dependsOn =
           <<permissionSetMap[1].id, permissionSetMap[2].id>>

(* C2 as stated: within one (assignment name, target account) group the   *)
(* first expanded assignment has no dependency and every later one depends *)
(* on exactly the one emitted immediately before it.                       *)
C2_LinearChain ==
    \A k \in Expanded :
        assignments[k].dependsOn =
            IF GroupBefore(k) = {} THEN <<>>
            ELSE <<assignments[Max(GroupBefore(k))].id>>

(* C2 amended: within one (assignment name, target account) group the      *)
(* first expanded assignment has no dependency and every later one depends *)
(* on every expanded assignment emitted before it in that group, in        *)
(* emission order, and on nothing else.                                    *)
C2_AllPredecessorsInGroup ==
    \A k \in Expanded :
        /\ assignments[k].id = k
        /\ Ascending(assignments[k].dependsOn)
        /\ SeqRange(assignments[k].dependsOn) = GroupBefore(k)

C2_Witness ==
    \E k \in Expanded :
        /\ Cardinality(GroupBefore(k)) = 2
        /\ Len(assignments[k].dependsOn) = 2

(* C3: an assignment entry over T target accounts and P resolved           *)
(* principals emits T*P expanded assignments, P for each target account,   *)
(* and no dependency edge connects two assignments that differ in target   *)
(* account or in assignment name.                                          *)
ExpandedOf(name) == {k \in Expanded : assignments[k].name = name}

C3_ExpansionCountAndIndependence ==
    /\ \A e \in 1..AssignmentsVisited :
           LET a == ConfiguredAssignments[e]
           IN  /\ Cardinality(ExpandedOf(a.name)) =
                      Len(a.targetAccountIds) * Len(a.principals)
               /\ \A t \in 1..Len(a.targetAccountIds) :
                      Cardinality({k \in ExpandedOf(a.name) :
                                     assignments[k].targetId = a.targetAccountIds[t]})
                          = Len(a.principals)
    /\ \A k \in 1..Len(assignments) :
           \A d \in SeqRange(assignments[k].dependsOn) :
               /\ d \in 1..Len(assignments)
               /\ assignments[d].name = assignments[k].name
               /\ assignments[d].targetId = assignments[k].targetId

C3_Witness ==
    /\ AssignmentsVisited >= 1
    /\ Len(ConfiguredAssignments[1].targetAccountIds) = 2
    /\ Len(ConfiguredAssignments[1].principals) = 3
    /\ Cardinality(ExpandedOf(ConfiguredAssignments[1].name)) = 6
    /\ \E k \in ExpandedOf(ConfiguredAssignments[1].name) :
           /\ assignments[k].targetId = ConfiguredAssignments[1].targetAccountIds[2]
           /\ Len(assignments[k].dependsOn) = 2

(* C10 as stated: with both boundary forms configured the emitted boundary *)
(* is the customer-managed reference; the emitted boundary never carries   *)
(* both forms.                                                             *)
BothBoundaries(ps) ==
    /\ ps.permissionsBoundary.present
    /\ ps.permissionsBoundary.customerManagedPolicy # ""
    /\ ps.permissionsBoundary.awsManagedPolicyName # ""

AtMostOneBoundaryForm(b) ==
    b.customerManagedPolicyReference = "" \/ b.managedPolicyArn = ""

C10_CustomerManagedPrecedence ==
    \A k \in 1..Len(permissionSetMap) :
        /\ AtMostOneBoundaryForm(permissionSetMap[k].permissionsBoundary)
        /\ BothBoundaries(ConfiguredPermissionSets[k]) =>
               /\ permissionSetMap[k].permissionsBoundary.customerManagedPolicyReference
                      = ConfiguredPermissionSets[k].permissionsBoundary.customerManagedPolicy
               /\ permissionSetMap[k].permissionsBoundary.managedPolicyArn = ""

(* C10 amended: with both boundary forms configured the emitted boundary   *)
(* is the AWS-managed policy ARN, the form assigned last; the emitted      *)
(* boundary never carries both forms.                                      *)
C10_AwsManagedPrecedence ==
    \A k \in 1..Len(permissionSetMap) :
        /\ AtMostOneBoundaryForm(permissionSetMap[k].permissionsBoundary)
        /\ BothBoundaries(ConfiguredPermissionSets[k]) =>
               /\ permissionSetMap[k].permissionsBoundary.customerManagedPolicyReference = ""
               /\ permissionSetMap[k].permissionsBoundary.managedPolicyArn =
                      "arn:aws:iam::aws:policy/PowerUserAccess"

C10_Witness ==
    \E k \in 1..Len(permissionSetMap) :
        /\ BothBoundaries(ConfiguredPermissionSets[k])
        /\ permissionSetMap[k].permissionsBoundary.managedPolicyArn # ""

(***************************************************************************)
(* Properties of the role compilation.                                     *)
(***************************************************************************)
(* The number of role entries createRole has been called for; when the     *)
(* run failed inside addRoles the entry at idx is the one that threw.      *)
RolesVisited ==
    CASE pc = "addRoles" -> idx - 1
      [] pc = "failed" /\ error.at = "addRoles" -> idx
      [] OTHER -> 0

RoleItemAt(j) == RoleQueue(cfg)[j].roleItem

Emitted(name) == \E k \in 1..Len(roles) : roles[k].name = name

EmittedRole(name) == roles[CHOOSE k \in 1..Len(roles) : roles[k].name = name]

Threw(j) == pc = "failed" /\ error.at = "addRoles" /\ idx = j

RegisteredByConfig == registeredPolicies(cfg.policySets)

DanglingPolicy(roleItem) ==
    \E k \in 1..Len(roleItem.customerManaged) :
        roleItem.customerManaged[k] \notin RegisteredByConfig

(* C4: compiling a role that names a customer-managed policy missing from  *)
(* the policy registry fails with UnregisteredPolicy and produces no role  *)
(* definition.                                                             *)
C4_UnregisteredPolicyFails ==
    \A j \in 1..RolesVisited :
        DanglingPolicy(RoleItemAt(j)) =>
            /\ Threw(j)
            /\ error.kind = "UnregisteredPolicy"
            /\ ~Emitted(RoleItemAt(j).name)

(* C5 as stated: a role with an ExternalProvider reference and at least    *)
(* one other principal reference fails with AmbiguousProviderPrincipal and *)
(* produces no role definition.                                            *)
ProviderWithOthers(roleItem) ==
    /\ \E k \in 1..Len(roleItem.assumedBy) : roleItem.assumedBy[k].type = "provider"
    /\ Len(roleItem.assumedBy) > 1

C5_AmbiguousProviderFails ==
    \A j \in 1..RolesVisited :
        ProviderWithOthers(RoleItemAt(j)) =>
            /\ Threw(j)
            /\ error.kind = "AmbiguousProviderPrincipal"
            /\ ~Emitted(RoleItemAt(j).name)

(* C5 amended: such a role always fails and produces no role definition;   *)
(* the error is AmbiguousProviderPrincipal unless resolving one of its     *)
(* references throws first, in which case that error is the one raised.    *)
ResolutionError(roleItem) ==
    getRolePrincipals(cfg.partition, SeqRange(cfg.providers), roleItem).err

C5_ProviderWithOthersFails ==
    \A j \in 1..RolesVisited :
        ProviderWithOthers(RoleItemAt(j)) =>
            /\ Threw(j)
            /\ ~Emitted(RoleItemAt(j).name)
            /\ error.kind = IF ResolutionError(RoleItemAt(j)) = "none"
                            THEN "AmbiguousProviderPrincipal"
                            ELSE ResolutionError(RoleItemAt(j))

C5_Witness ==
    \E j \in 1..RolesVisited :
        /\ ProviderWithOthers(RoleItemAt(j))
        /\ Threw(j)
        /\ error.kind = "AmbiguousProviderPrincipal"
        /\ error.message = ValidationMessage

(* C6: every configuration-correctness error is fatal to the run: a role   *)
(* entry with such an error stops the run at that entry, so no later entry *)
(* is compiled and the run never completes.                                *)
UnknownAccountName(item) ==
    /\ item.type = "account"
    /\ Len(item.principal) < AccountIdLen
    /\ item.principal \notin KnownAccounts

UnknownProvider(item) ==
    item.type = "provider" /\ item.principal \notin SeqRange(cfg.providers)

ConfigurationError(roleItem) ==
    \/ DanglingPolicy(roleItem)
    \/ ProviderWithOthers(roleItem)
    \/ \E k \in 1..Len(roleItem.assumedBy) :
           UnknownAccountName(roleItem.assumedBy[k])
           \/ UnknownProvider(roleItem.assumedBy[k])

ConfiguredRoles ==
    {RoleQueue(cfg)[j].roleItem : j \in 1..Len(RoleQueue(cfg))}

C6_ConfigurationErrorsAreFatal ==
    /\ \A j \in 1..RolesVisited : ConfigurationError(RoleItemAt(j)) => Threw(j)
    /\ pc = "done" /\ cfg.homeRegion =>
           \A r \in ConfiguredRoles : ~ConfigurationError(r)

(***************************************************************************)
(* Properties of the account principal resolution.                         *)
(***************************************************************************)
TwelveDigits(s) == Len(s) = 12 /\ \A k \in 1..Len(s) : s[k] \in Digit

(* The 12-character segment a root ARN of the partition embeds. *)
EmbeddedId(partition, s) ==
    SubSeq(s, Len(ArnHead \o partition \o IamSep) + 1,
           Len(ArnHead \o partition \o IamSep) + 12)

RootArn(partition, s) ==
    /\ Len(s) = Len(ArnHead \o partition \o IamSep) + 12 + Len(RootTail)
    /\ TwelveDigits(EmbeddedId(partition, s))
    /\ s = ArnHead \o partition \o IamSep \o EmbeddedId(partition, s) \o RootTail

(* The getAccountId calls made while resolving item k of the named role. *)
ResolutionCalls(name, k) ==
    {c \in 1..Len(lookupCalls) :
        /\ lookupCalls[c].by = "getRolePrincipals"
        /\ lookupCalls[c].role = name
        /\ lookupCalls[c].item = k}

LookedUpValues ==
    {lookupCalls[c].value :
        c \in {d \in 1..Len(lookupCalls) : lookupCalls[d].by = "getRolePrincipals"}}

(* Item k of a visited role was reached: no earlier item of the role threw. *)
Reached(roleItem, k) ==
    \A m \in 1..(k - 1) :
        resolveItem(cfg.partition, SeqRange(cfg.providers),
                    roleItem.assumedBy[m]).err = "none"

AccountItems(roleItem) ==
    {k \in 1..Len(roleItem.assumedBy) : roleItem.assumedBy[k].type = "account"}

(* C7: an Account reference whose value is a bare 12-digit string s        *)
(* resolves to the account principal with identifier s, and the            *)
(* account-name lookup is never invoked for it.                            *)
C7_BareAccountId ==
    \A j \in 1..RolesVisited :
        \A k \in AccountItems(RoleItemAt(j)) :
            LET s == RoleItemAt(j).assumedBy[k].principal
            IN  TwelveDigits(s) =>
                    /\ ResolutionCalls(RoleItemAt(j).name, k) = {}
                    /\ s \notin LookedUpValues
                    /\ Emitted(RoleItemAt(j).name) =>
                           EmittedRole(RoleItemAt(j).name).principals[k] =
                               [kind |-> "AccountId", identifier |-> s,
                                samlAud |-> FALSE]

C7_Witness ==
    \E j \in 1..RolesVisited :
        \E k \in AccountItems(RoleItemAt(j)) :
            /\ RoleItemAt(j).assumedBy[k].principal = D12b
            /\ Emitted(RoleItemAt(j).name)
            /\ EmittedRole(RoleItemAt(j).name).principals[k].identifier = D12b

(* C8: an Account reference whose value is a root ARN of the active        *)
(* partition resolves to the account principal whose identifier is the     *)
(* embedded 12-digit segment, and the account-name lookup is never         *)
(* invoked for it.                                                         *)
C8_RootArnEmbeddedId ==
    \A j \in 1..RolesVisited :
        \A k \in AccountItems(RoleItemAt(j)) :
            LET s == RoleItemAt(j).assumedBy[k].principal
            IN  RootArn(cfg.partition, s) =>
                    /\ ResolutionCalls(RoleItemAt(j).name, k) = {}
                    /\ s \notin LookedUpValues
                    /\ Emitted(RoleItemAt(j).name) =>
                           EmittedRole(RoleItemAt(j).name).principals[k] =
                               [kind |-> "AccountId",
                                identifier |-> EmbeddedId(cfg.partition, s),
                                samlAud |-> FALSE]

C8_Witness ==
    \E j \in 1..RolesVisited :
        \E k \in AccountItems(RoleItemAt(j)) :
            /\ cfg.partition = AWSCN
            /\ RoleItemAt(j).assumedBy[k].principal = Arn(AWSCN, D12b, RootTail)
            /\ Emitted(RoleItemAt(j).name)
            /\ EmittedRole(RoleItemAt(j).name).principals[k].identifier = D12b

(* C9: resolving an Account reference whose value is neither a 12-digit    *)
(* number nor a root ARN invokes the account-name lookup exactly once,     *)
(* with the raw value, and the identifier is the account id it returns.    *)
C9_NameLookupOnce ==
    \A j \in 1..RolesVisited :
        \A k \in AccountItems(RoleItemAt(j)) :
            LET s == RoleItemAt(j).assumedBy[k].principal
            IN  /\ ~TwelveDigits(s)
                /\ ~RootArn(cfg.partition, s)
                /\ Reached(RoleItemAt(j), k)
                =>  /\ Cardinality(ResolutionCalls(RoleItemAt(j).name, k)) = 1
                    /\ \A c \in ResolutionCalls(RoleItemAt(j).name, k) :
                           lookupCalls[c].value = s
                    /\ Emitted(RoleItemAt(j).name) =>
                           /\ getAccountId(s).ok
                           /\ EmittedRole(RoleItemAt(j).name).principals[k] =
                                  [kind |-> "AccountId",
                                   identifier |-> getAccountId(s).id,
                                   samlAud |-> FALSE]

C9_Witness ==
    \E j \in 1..RolesVisited :
        \E k \in AccountItems(RoleItemAt(j)) :
            /\ RoleItemAt(j).assumedBy[k].principal = AUDIT
            /\ Emitted(RoleItemAt(j).name)
            /\ EmittedRole(RoleItemAt(j).name).principals[k].identifier = AuditId
            /\ Cardinality(ResolutionCalls(RoleItemAt(j).name, k)) = 1

(* The emitted assignments of configured assignment entry j for its t-th   *)
(* target account.                                                         *)
EmittedFor(j, t) ==
    {k \in 1..Len(assignments) :
        /\ assignments[k].name = ConfiguredAssignments[j].name
        /\ assignments[k].targetId = ConfiguredAssignments[j].targetAccountIds[t]}

UnregisteredPermissionSet(j) ==
    \A k \in 1..Len(permissionSetMap) :
        permissionSetMap[k].name # ConfiguredAssignments[j].permissionSetName

ExpectedPerTarget(j) ==
    (IF HasLegacyPrincipal(ConfiguredAssignments[j]) THEN 1 ELSE 0)
    + Len(ConfiguredAssignments[j].principals)

(* C11: an assignment entry that names a permission set absent from the    *)
(* registry does not fail the run; the assignments of every one of its     *)
(* target accounts are emitted all the same, each with the empty string as *)
(* its permission-set ARN.                                                 *)
C11_UnknownPermissionSetEmptyArn ==
    \A j \in 1..AssignmentsVisited :
        UnregisteredPermissionSet(j) =>
            /\ pc # "failed"
            /\ error = NoError
            /\ \A t \in 1..Len(ConfiguredAssignments[j].targetAccountIds) :
                  /\ Cardinality(EmittedFor(j, t)) = ExpectedPerTarget(j)
                  /\ \A k \in EmittedFor(j, t) :
                        assignments[k].permissionSetArn = ""

C11_Witness ==
    /\ Len(permissionSetMap) = 2
    /\ \E j \in 1..AssignmentsVisited :
          /\ UnregisteredPermissionSet(j)
          /\ Len(ConfiguredAssignments[j].targetAccountIds) = 2
          /\ \A t \in 1..2 :
                /\ Cardinality(EmittedFor(j, t)) >= 2
                /\ \A k \in EmittedFor(j, t) :
                      assignments[k].permissionSetArn = ""

BothPrincipalForms(j) ==
    /\ HasLegacyPrincipal(ConfiguredAssignments[j])
    /\ Len(ConfiguredAssignments[j].principals) > 0

LegacyOf(j, t) == {k \in EmittedFor(j, t) : assignments[k].legacy}

(* C12: for an assignment entry that gives both the singular principal     *)
(* id/type and a non-empty principals list, every target account gets      *)
(* exactly one legacy assignment and one expanded assignment per resolved  *)
(* principal; the legacy assignment depends on nothing, and no expanded    *)
(* assignment depends on a legacy assignment.                              *)
C12_LegacyOutsideChain ==
    \A j \in 1..AssignmentsVisited :
        BothPrincipalForms(j) =>
            \A t \in 1..Len(ConfiguredAssignments[j].targetAccountIds) :
                /\ Cardinality(LegacyOf(j, t)) = 1
                /\ Cardinality(EmittedFor(j, t) \ LegacyOf(j, t))
                       = Len(ConfiguredAssignments[j].principals)
                /\ \A k \in LegacyOf(j, t) : assignments[k].dependsOn = <<>>
                /\ \A k \in EmittedFor(j, t) :
                      \A d \in 1..Len(assignments[k].dependsOn) :
                          /\ assignments[k].dependsOn[d] \in 1..Len(assignments)
                          /\ ~assignments[assignments[k].dependsOn[d]].legacy

C12_Witness ==
    \E j \in 1..AssignmentsVisited :
        /\ BothPrincipalForms(j)
        /\ Len(ConfiguredAssignments[j].targetAccountIds) = 2
        /\ \A t \in 1..2 :
              /\ Cardinality(LegacyOf(j, t)) = 1
              /\ Cardinality(EmittedFor(j, t)) = 3
              /\ \E k \in EmittedFor(j, t) : Len(assignments[k].dependsOn) = 1

UndefinedProviderPrincipal(role) ==
    \E k \in 1..Len(role.principals) :
        /\ role.principals[k].kind = "Federated"
        /\ role.principals[k].identifier = Undefined

DanglingBoundary(boundaryPolicy) ==
    boundaryPolicy # "" /\ boundaryPolicy \notin policies

ConfiguredUsers == {UserQueue(cfg)[j] : j \in 1..Len(UserQueue(cfg))}

(* C14: a role or user whose boundary policy names a customer-managed      *)
(* policy that is not in the registry is rejected with an error: the run   *)
(* fails at a role with such a boundary, and no role or user configured    *)
(* with such a boundary is ever emitted without a permissions boundary.    *)
C14_UnregisteredBoundaryRejected ==
    /\ \A j \in 1..RolesVisited :
          DanglingBoundary(RoleItemAt(j).boundaryPolicy) =>
              Threw(j) /\ ~Emitted(RoleItemAt(j).name)
    /\ \A m \in 1..Len(roles) :
          \A r \in ConfiguredRoles :
              r.name = roles[m].name /\ DanglingBoundary(r.boundaryPolicy) =>
                  roles[m].permissionsBoundary # UndefinedPolicy
    /\ \A m \in 1..Len(users) :
          \A u \in ConfiguredUsers :
              u.username = users[m].userName /\ DanglingBoundary(u.boundaryPolicy) =>
                  users[m].permissionsBoundary # UndefinedPolicy

(* A role (R2, boundary P1 of a policy set that was not registered) is     *)
(* emitted with an undefined boundary.                                     *)
C14_SilentRole ==
    \E m \in 1..Len(roles) :
        /\ roles[m].permissionsBoundary = UndefinedPolicy
        /\ \E r \in ConfiguredRoles :
              r.name = roles[m].name /\ DanglingBoundary(r.boundaryPolicy)

(* A user (U2, boundary P9) is emitted with an undefined boundary. *)
C14_SilentUser ==
    \E m \in 1..Len(users) :
        /\ users[m].permissionsBoundary = UndefinedPolicy
        /\ \E u \in ConfiguredUsers :
              u.username = users[m].userName /\ DanglingBoundary(u.boundaryPolicy)

(* C15: when createRole aborts the run on a configuration error, the error *)
(* raised identifies the offending configuration entry: it carries the     *)
(* name of the role that was being compiled.                               *)
C15_ErrorNamesEntry ==
    \A j \in 1..RolesVisited :
        Threw(j) /\ error.kind = "AmbiguousProviderPrincipal" =>
            error.entry = RoleItemAt(j).name

(* The run aborted on the provider check of a role and the error carries   *)
(* the literal message only.                                               *)
C15_AnonymousError ==
    \E j \in 1..RolesVisited :
        /\ Threw(j)
        /\ error.kind = "AmbiguousProviderPrincipal"
        /\ error.message = ValidationMessage
        /\ error.entry # RoleItemAt(j).name

(* The principal a resolved reference of the given type and value must be, *)
(* as far as its kind and, for a service, its identifier go.               *)
MatchesReference(principal, item) ==
    CASE item.type = "service" ->
             principal = [kind |-> "Service", identifier |-> item.principal,
                          samlAud |-> FALSE]
      [] item.type = "account" ->
             principal.kind = "AccountId" /\ Len(principal.identifier) = AccountIdLen
      [] item.type = "provider" ->
             /\ principal.kind = "Federated"
             /\ principal.identifier = samlProviderArn(item.principal)

ProviderAlone(roleItem) ==
    Len(roleItem.assumedBy) = 1 /\ roleItem.assumedBy[1].type = "provider"

(* C16: an emitted role without an ExternalProvider reference has one      *)
(* composite principal that holds every resolved principal, one per        *)
(* reference and in configuration order; an emitted role with exactly one  *)
(* reference, of kind ExternalProvider, has that single resolved principal *)
(* alone and no composite.                                                 *)
C16_CompositeOrProviderAlone ==
    \A m \in 1..Len(roles) :
        \A r \in ConfiguredRoles :
            r.name = roles[m].name =>
                /\ ~HasProvider(r) =>
                       /\ roles[m].composite
                       /\ Len(roles[m].principals) = Len(r.assumedBy)
                       /\ \A k \in 1..Len(r.assumedBy) :
                              MatchesReference(roles[m].principals[k], r.assumedBy[k])
                /\ ProviderAlone(r) =>
                       /\ ~roles[m].composite
                       /\ Len(roles[m].principals) = 1
                       /\ MatchesReference(roles[m].principals[1], r.assumedBy[1])

C16_Witness ==
    /\ \E m \in 1..Len(roles) :
          /\ roles[m].composite
          /\ Len(roles[m].principals) = 2
          /\ roles[m].principals[1].kind = "AccountId"
          /\ roles[m].principals[2].kind = "Service"
    /\ \E m \in 1..Len(roles) :
          /\ ~roles[m].composite
          /\ roles[m].principals = <<FederatedPrincipal(samlProviderArn(IDP), TRUE)>>

(* C18: the dependency edges never form a cycle: every edge of a           *)
(* permission set points to a permission set emitted strictly earlier in   *)
(* the run, and every edge of an assignment points to an assignment        *)
(* emitted strictly earlier in the run.                                    *)
C18_EdgesPointBackwards ==
    /\ \A k \in 1..Len(permissionSetMap) :
          \A d \in 1..Len(permissionSetMap[k].dependsOn) :
              \E m \in 1..(k - 1) :
                  permissionSetMap[m].id = permissionSetMap[k].dependsOn[d]
    /\ \A k \in 1..Len(permissionSetMap) :
          \A m \in 1..(k - 1) : permissionSetMap[m].id # permissionSetMap[k].id
    /\ \A k \in 1..Len(assignments) :
          /\ assignments[k].id = k
          /\ \A d \in 1..Len(assignments[k].dependsOn) :
                assignments[k].dependsOn[d] \in 1..(k - 1)

C18_Witness ==
    /\ \E k \in 1..Len(permissionSetMap) : Len(permissionSetMap[k].dependsOn) >= 1
    /\ \E k \in 1..Len(assignments) : Len(assignments[k].dependsOn) >= 2
    /\ \E k \in 1..Len(assignments) :
          assignments[k].legacy /\ k > 1 /\ assignments[k].dependsOn = <<>>

(* C19: no assignment is compiled before the permission sets: once an      *)
(* assignment entry is being compiled or an assignment has been emitted,   *)
(* every configured permission set has been emitted, so each ARN lookup    *)
(* sees the complete registry; and an assignment that names a registered   *)
(* permission set carries the ARN of a set of that name.                   *)
C19_PermissionSetsBeforeAssignments ==
    /\ pc = "addIdentityCenterAssignments" \/ Len(assignments) > 0 =>
           /\ Len(permissionSetMap) = Len(ConfiguredPermissionSets)
           /\ \A k \in 1..Len(ConfiguredPermissionSets) :
                 permissionSetMap[k].name = ConfiguredPermissionSets[k].name
    /\ \A j \in 1..AssignmentsVisited :
          \A k \in 1..Len(assignments) :
              /\ assignments[k].name = ConfiguredAssignments[j].name
              /\ ~UnregisteredPermissionSet(j)
              => /\ assignments[k].permissionSetArn # ""
                 /\ \E m \in 1..Len(permissionSetMap) :
                       /\ permissionSetMap[m].name =
                              ConfiguredAssignments[j].permissionSetName
                       /\ permissionSetMap[m].arn = assignments[k].permissionSetArn

C19_Witness ==
    /\ pc = "addIdentityCenterAssignments"
    /\ Len(permissionSetMap) = 2
    /\ permissionSetMap[1].name # permissionSetMap[2].name
    /\ \E j \in 1..AssignmentsVisited :
          /\ ConfiguredAssignments[j].permissionSetName = permissionSetMap[1].name
          /\ \E k \in 1..Len(assignments) :
                /\ assignments[k].name = ConfiguredAssignments[j].name
                /\ assignments[k].permissionSetArn = permissionSetMap[1].arn

CompilingPrincipals == pc \in {"addRoles", "addGroups", "addUsers"}

(* C20: while any role, group or user is compiled, every customer-managed  *)
(* policy of a policy set that is included for the current deployment      *)
(* target is already in the policy registry.                               *)
C20_IncludedPoliciesRegistered ==
    CompilingPrincipals =>
        \A k \in 1..Len(cfg.policySets) :
            cfg.policySets[k].included =>
                SeqRange(cfg.policySets[k].policies) \subseteq policies

(* C20 as amended: while any role, group or user is compiled, every        *)
(* customer-managed policy of a policy set that is included for the        *)
(* current deployment target and is not flagged identityCenterDependency   *)
(* is already in the policy registry.                                      *)
C20_IncludedUnflaggedPoliciesRegistered ==
    CompilingPrincipals =>
        \A k \in 1..Len(cfg.policySets) :
            /\ cfg.policySets[k].included
            /\ ~cfg.policySets[k].identityCenterDependency
            => SeqRange(cfg.policySets[k].policies) \subseteq policies

C20_Witness ==
    /\ pc = "addUsers"
    /\ Len(roles) > 0 /\ Len(groups) > 0 /\ Len(users) > 0
    /\ \E k \in 1..Len(cfg.policySets) :
          /\ cfg.policySets[k].included
          /\ ~cfg.policySets[k].identityCenterDependency
          /\ "P1" \in SeqRange(cfg.policySets[k].policies)
    /\ "P1" \in policies

ContainsArnHead(s) ==
    \E i \in 1..Len(s) :
        /\ i + Len(ArnHead) - 1 <= Len(s)
        /\ SubSeq(s, i, i + Len(ArnHead) - 1) = ArnHead

ForeignRootArn(s) ==
    \E p \in Partitions : p # cfg.partition /\ RootArn(p, s)

(* A value shaped like an ARN that is not exactly a root ARN of the active *)
(* partition: a root ARN of another partition, or an ARN with a wrong      *)
(* account segment, a wrong tail, or text before or after it.              *)
InexactArn(s) == ContainsArnHead(s) /\ ~RootArn(cfg.partition, s)

(* C21: an Account reference shaped like a root ARN of another partition,  *)
(* or otherwise not matching the root-ARN pattern of the active partition  *)
(* exactly, is never parsed for an embedded account id: when resolution    *)
(* reaches it, it is passed once and verbatim to the account-name lookup,  *)
(* and the role gets the identifier the lookup returns or, when the lookup *)
(* fails, is not produced.                                                 *)
C21_InexactArnLookedUpVerbatim ==
    \A j \in 1..RolesVisited :
        \A k \in AccountItems(RoleItemAt(j)) :
            LET s == RoleItemAt(j).assumedBy[k].principal
            IN  InexactArn(s) /\ Reached(RoleItemAt(j), k) =>
                    /\ Cardinality(ResolutionCalls(RoleItemAt(j).name, k)) = 1
                    /\ s \in LookedUpValues
                    /\ \A c \in ResolutionCalls(RoleItemAt(j).name, k) :
                           lookupCalls[c].value = s
                    /\ ~getAccountId(s).ok =>
                           /\ Threw(j)
                           /\ error.kind = "UnresolvableAccountReference"
                           /\ ~Emitted(RoleItemAt(j).name)
                    /\ Emitted(RoleItemAt(j).name) =>
                           EmittedRole(RoleItemAt(j).name).principals[k].identifier
                               = getAccountId(s).id

C21_Witness ==
    /\ cfg.partition = AWS
    /\ \E j \in 1..RolesVisited :
          /\ RoleItemAt(j).assumedBy[1].type = "account"
          /\ RoleItemAt(j).assumedBy[1].principal = Arn(AWSCN, D12b, RootTail)
          /\ ForeignRootArn(RoleItemAt(j).assumedBy[1].principal)
          /\ Arn(AWSCN, D12b, RootTail) \in LookedUpValues
          /\ Threw(j)
          /\ roles = <<>>

(* The registry entries of the given name that have a non-empty arn. *)
NamedWithArn(name) ==
    {m \in 1..Len(permissionSetMap) :
        permissionSetMap[m].name = name /\ permissionSetMap[m].arn # ""}

(* C22: the ARN of an emitted assignment is the arn of the last registry   *)
(* entry, in registry order, that has the permission-set name of the       *)
(* assignment entry and a non-empty arn; entries with an empty arn are     *)
(* ignored, and without such an entry the ARN is the empty string.         *)
C22_LastNamedNonEmptyArn ==
    \A j \in 1..AssignmentsVisited :
        \A k \in 1..Len(assignments) :
            assignments[k].name = ConfiguredAssignments[j].name =>
                LET named == NamedWithArn(ConfiguredAssignments[j].permissionSetName)
                IN  assignments[k].permissionSetArn =
                        IF named = {} THEN ""
                        ELSE permissionSetMap[Max(named)].arn

C22_Witness ==
    /\ Len(permissionSetMap) = 3
    /\ \A m \in 1..3 : permissionSetMap[m].name = "A"
    /\ permissionSetMap[1].arn # ""
    /\ permissionSetMap[2].arn # ""
    /\ permissionSetMap[1].arn # permissionSetMap[2].arn
    /\ permissionSetMap[3].arn = ""
    /\ AssignmentsVisited = 1
    /\ ConfiguredAssignments[1].permissionSetName = "A"
    /\ Len(assignments) = 1
    /\ assignments[1].permissionSetArn = permissionSetMap[2].arn

====
